---- MODULE Spec2Model ----
(***************************************************************************)
(* wordle-aid: the guess history, the constraint aggregation               *)
(* (AggregateWordResult::from), the matcher (word_matches) and the session *)
(* loop (run_guess_loop) with its prompts, modelled from src/src/main.rs.  *)
(*                                                                         *)
(* A char is a one-character string, a word a sequence of chars.  Rust's   *)
(* 0-based positions are kept as 0-based numbers and turned into sequence  *)
(* indexes by +1 where a sequence is read.                                 *)
(***************************************************************************)
EXTENDS Integers, Sequences, FiniteSets, TLC

VARIABLES
    guesses,        \* Guesses.vec: the history
    guessed_word,   \* the argument of the latest add_guess call
    stderr,         \* the lines the latest step wrote to stderr
    stdout,         \* the lines the latest step wrote to stdout
    agg,            \* run_guess_loop's agg
    display_words,  \* run_guess_loop's display_words
    item_index,     \* run_guess_loop's item_index
    pc,             \* where the session is blocked (or "done" after break)
    guess_string,   \* prompt_for_results' guess
    letters,        \* prompt_for_results' letters
    input           \* first char of the line read last by a prompt

vars == <<guesses, guessed_word, stderr, stdout, agg, display_words,
          item_index, pc, guess_string, letters, input>>

-----------------------------------------------------------------------------
(* Program constants *)

WordLen == 5
MaxGuesses == 6
DisplayCap == 10

(* Bounds of the model *)

NumInputs == 3
MaxRounds == 1

-----------------------------------------------------------------------------
(* Data *)

None == "None"

NotUsed == "NotUsed"
WrongSpot == "WrongSpot"
CorrectSpot == "CorrectSpot"

GuessedLetterResult == {NotUsed, WrongSpot, CorrectSpot}

GuessedLetter(letter, result) == [letter |-> letter, result |-> result]

GuessedWord(ls) == [letters |-> ls]

AggregateLetterResult(wrong_spot, correct_spot) ==
    [wrong_spot |-> wrong_spot, correct_spot |-> correct_spot]

Positions == 0 .. (WordLen - 1)

Chars(strng) == { strng[i] : i \in 1 .. Len(strng) }

(* The static word list (wordle_words::word_list): a sample, in list order. *)
word_list ==
    << <<"a","c","o","r","n">>, <<"c","a","p","e","r">>, <<"c","a","r","g","o">>,
       <<"c","r","i","m","p">>, <<"e","e","r","i","e">>, <<"m","a","c","r","o">>,
       <<"r","a","c","e","r">>, <<"r","e","c","u","r">>, <<"r","i","c","e","r">>,
       <<"u","n","z","i","p">>, <<"z","e","b","r","a">>, <<"z","o","n","e","r">> >>

-----------------------------------------------------------------------------
(* AggregateWordResult::from *)

\* a variant that keeps the letter found so far when a guess is not CorrectSpot
CorrectSpotStep_keeps(correct_spot, current_letter) ==
    IF current_letter.result = CorrectSpot
    THEN (IF correct_spot # None THEN correct_spot ELSE current_letter.letter)
    ELSE correct_spot

\* lines 75-80: the match that updates correct_spot for one guess
CorrectSpotStep(correct_spot, current_letter) ==
    IF current_letter.result = CorrectSpot
    THEN (IF correct_spot # None THEN correct_spot ELSE current_letter.letter)
    ELSE None

\* a variant that skips a NotUsed letter already known to be used somewhere
SetsStep_multiplicity(acc, current_letter) ==
    CASE current_letter.result = WrongSpot ->
            [acc EXCEPT !.wrong_spot = @ \cup {current_letter.letter},
                        !.used_somewhere = @ \cup {current_letter.letter}]
      [] current_letter.result = NotUsed
            /\ current_letter.letter \notin acc.used_somewhere ->
            [acc EXCEPT !.not_used = @ \cup {current_letter.letter}]
      [] OTHER -> acc

\* a variant with the two inserting arms swapped
SetsStep_swapped(acc, current_letter) ==
    CASE current_letter.result = NotUsed ->
            [acc EXCEPT !.wrong_spot = @ \cup {current_letter.letter},
                        !.used_somewhere = @ \cup {current_letter.letter}]
      [] current_letter.result = WrongSpot ->
            [acc EXCEPT !.not_used = @ \cup {current_letter.letter}]
      [] OTHER -> acc

\* lines 81-90: the match that updates the three sets for one guess
SetsStep(acc, current_letter) ==
    CASE current_letter.result = WrongSpot ->
            [acc EXCEPT !.wrong_spot = @ \cup {current_letter.letter},
                        !.used_somewhere = @ \cup {current_letter.letter}]
      [] current_letter.result = NotUsed ->
            [acc EXCEPT !.not_used = @ \cup {current_letter.letter}]
      [] OTHER -> acc

\* lines 73-91: the for loop over the guessed words, from word k on, with
\* acc the values of correct_spot and the three sets before word k
\* (a set of one element binds the computed value of the next round)
RECURSIVE ScanWords(_, _, _, _)
ScanWords(guessed_words, letter_index, k, acc) ==
    IF k > Len(guessed_words) THEN acc
    ELSE LET current_letter == guessed_words[k].letters[letter_index + 1]
         IN CHOOSE r \in
                { ScanWords(guessed_words, letter_index, k + 1, next) :
                    next \in {SetsStep([acc EXCEPT !.correct_spot =
                                           CorrectSpotStep(@, current_letter)],
                                       current_letter)} } : TRUE

\* lines 70-98: the while loop over the letter positions, with st the values
\* of not_used, used_somewhere and aggregate_letter_results before the pass
RECURSIVE ScanPositions(_, _, _)
ScanPositions(guessed_words, letter_index, st) ==
    IF letter_index < WordLen
    THEN CHOOSE r \in
            { ScanPositions(guessed_words, letter_index + 1,
                [not_used |-> acc.not_used,
                 used_somewhere |-> acc.used_somewhere,
                 aggregate_letter_results |->
                    Append(st.aggregate_letter_results,
                           AggregateLetterResult(acc.wrong_spot,
                                                 acc.correct_spot))]) :
                acc \in {ScanWords(guessed_words, letter_index, 1,
                            [correct_spot |-> None, wrong_spot |-> {},
                             used_somewhere |-> st.used_somewhere,
                             not_used |-> st.not_used])} } : TRUE
    ELSE st

from(guessed_words) ==
    ScanPositions(guessed_words, 0,
        [not_used |-> {}, used_somewhere |-> {},
         aggregate_letter_results |-> <<>>])

-----------------------------------------------------------------------------
(* The matcher *)

\* lines 156-162
set_not_in_str(hash, strng) ==
    \A item \in hash : \A i \in 1 .. Len(strng) : strng[i] # item

\* lines 164-170
used_at_least_once(hash, strng) ==
    \A item \in hash : \E i \in 1 .. Len(strng) : strng[i] = item

\* a variant without the loop over wrong_spot
letter_matches_no_wrong_spot(self, index, chr) ==
    LET aggregate_letter_result == self.aggregate_letter_results[index + 1]
    IN IF aggregate_letter_result.correct_spot # None
       THEN aggregate_letter_result.correct_spot = chr
       ELSE TRUE

\* lines 106-120
letter_matches(self, index, chr) ==
    LET aggregate_letter_result == self.aggregate_letter_results[index + 1]
        successful_match ==
            IF aggregate_letter_result.correct_spot # None
            THEN aggregate_letter_result.correct_spot = chr
            ELSE TRUE
    IN IF \E letter \in aggregate_letter_result.wrong_spot : chr = letter
       THEN FALSE
       ELSE successful_match

\* lines 126-128: the loop over the chars of strng, from position on
RECURSIVE MatchChars(_, _, _, _)
MatchChars(self, strng, position, successful_match) ==
    IF position >= Len(strng) THEN successful_match
    ELSE MatchChars(self, strng, position + 1,
            successful_match /\ letter_matches(self, position, strng[position + 1]))

\* lines 122-130
word_matches(self, strng) ==
    LET m1 == set_not_in_str(self.not_used, strng)
        m2 == m1 /\ used_at_least_once(self.used_somewhere, strng)
    IN MatchChars(self, strng, 0, m2)

\* line 188: words.iter().filter(|x| agg.word_matches(x)), in list order
RECURSIVE filter(_, _)
filter(words, self) ==
    IF words = <<>> THEN <<>>
    ELSE IF word_matches(self, Head(words))
         THEN <<Head(words)>> \o filter(Tail(words), self)
         ELSE filter(Tail(words), self)

-----------------------------------------------------------------------------
(* Guesses *)

\* a variant whose capacity test is off by one
add_guess_off_by_one(vec, gw) ==
    IF Len(vec) <= MaxGuesses
    THEN [vec |-> Append(vec, gw), stderr |-> <<>>]
    ELSE [vec |-> vec, stderr |-> <<"You can't enter more than 5 words">>]

\* a variant that inserts the new guess at the front
add_guess_front(vec, gw) ==
    IF Len(vec) < MaxGuesses
    THEN [vec |-> <<gw>> \o vec, stderr |-> <<>>]
    ELSE [vec |-> vec, stderr |-> <<"You can't enter more than 5 words">>]

\* lines 147-153: the history after the call and what the call writes to stderr
add_guess(vec, gw) ==
    IF Len(vec) < MaxGuesses
    THEN [vec |-> Append(vec, gw), stderr |-> <<>>]
    ELSE [vec |-> vec, stderr |-> <<"You can't enter more than 5 words">>]

-----------------------------------------------------------------------------
(* run_guess_loop *)

\* lines 191-197: the while loop that takes items from the filtered iterator
RECURSIVE TakeLoop(_, _, _)
TakeLoop(filtered_words, idx, display) ==
    IF idx < DisplayCap
    THEN CHOOSE r \in
            { TakeLoop(next[1], idx + 1, next[2]) :
                next \in { IF filtered_words # <<>>
                           THEN <<Tail(filtered_words),
                                  Append(display, Head(filtered_words))>>
                           ELSE <<filtered_words, display>> } } : TRUE
    ELSE [item_index |-> idx, display_words |-> display]

NoWordsMsg == "There are no words that match the results you entered. Did you make a mistake entering them?"
PickMsg == "If the word was correct, press CTRL+C to quit. Otherwise, make a guess with one of the following:"
WelcomeMsg == "Guess any five letter word- \"arose\" is a good choice!"
EnterGuessMsg == "Please enter the word you guessed:"
FiveLetterMsg == "Please enter a five letter word:"
EnterResultMsg == "Enter the result for the letter: [G]reen, [Y]ellow, or [B]lack "
ReEnterColorMsg == "Please enter [G]reen, [Y]ellow, or [B]lack: "
ConfirmMsg == "You entered ... Is this correct? Please enter y or n"
OnlyYNMsg == "Please only enter characters 'y' or 'n': "

\* lines 181 (add_guess in get_guess, line 213) to 206: one pass of the loop
\* body once get_guess has the guess gw, up to the next blocking read
LoopBody(gw) ==
    /\ guessed_word' = gw
    /\ \E r \in {add_guess(guesses, gw)} :
          /\ guesses' = r.vec
          /\ stderr' = r.stderr
    /\ agg' = from(guesses')
    /\ \E filtered_words \in {filter(word_list, agg')} :
       \E t \in {TakeLoop(filtered_words, 0, <<>>)} :
          /\ item_index' = t.item_index
          /\ display_words' = t.display_words
    /\ IF item_index' = 0
       THEN /\ stdout' = <<NoWordsMsg>>
            /\ pc' = "done"
       ELSE /\ stdout' = <<PickMsg, EnterGuessMsg>>
            /\ pc' = "prompt_for_guess"

-----------------------------------------------------------------------------
(* The guesses a session enters *)

\* The game's feedback for guess word g against target word t: equal letters
\* are CorrectSpot; of the others, as many occurrences of a letter as the
\* target still holds outside its CorrectSpot positions are WrongSpot, from
\* the left, and the rest NotUsed.
WordleResult(g, t, i) ==
    LET Count == Cardinality({ j \in 1 .. WordLen : t[j] = g[i] /\ g[j] # t[j] })
        Prior == Cardinality({ j \in 1 .. (i - 1) : g[j] = g[i] /\ g[j] # t[j] })
    IN IF g[i] = t[i] THEN CorrectSpot
       ELSE IF Prior < Count THEN WrongSpot
       ELSE NotUsed

RECURSIVE WordleLetters(_, _, _)
WordleLetters(g, t, n) ==
    IF n = 0 THEN <<>>
    ELSE Append(WordleLetters(g, t, n - 1),
                GuessedLetter(g[n], WordleResult(g, t, n)))

WordleFeedback(g, t) == GuessedWord(WordleLetters(g, t, WordLen))

racer == <<"r","a","c","e","r">>
zebra == <<"z","e","b","r","a">>
recur == <<"r","e","c","u","r">>
cargo == <<"c","a","r","g","o">>

\* the (guess word, target word) pairs the entered guesses come from
InputList ==
    << <<cargo, racer>>,
       << <<"c","r","i","m","p">>, racer >>,
       << recur, zebra >>,
       << <<"r","i","c","e","r">>, racer >>,
       << <<"e","e","r","i","e">>, racer >>,
       << <<"z","o","n","e","r">>, zebra >> >>

InputIndexes == { i \in 1 .. Len(InputList) : i <= NumInputs }

Targets == { InputList[i][2] : i \in InputIndexes }

\* what get_guess returns (lines 210-214): a word with its per-letter results
GuessInputs == { WordleFeedback(InputList[i][1], InputList[i][2]) : i \in InputIndexes }

\* the candidate words the matcher is asked about
Candidates == Chars(word_list) \cup { InputList[i][1] : i \in 1 .. Len(InputList) }

-----------------------------------------------------------------------------
(* The session at the level of whole guesses *)

NoGuess == GuessedWord(<<>>)

\* agg before the first pass of the loop: nothing aggregated yet
NoAgg ==
    [not_used |-> {}, used_somewhere |-> {}, aggregate_letter_results |-> <<>>]

Init ==
    /\ guesses = <<>>
    /\ guessed_word = NoGuess
    /\ stderr = <<>>
    /\ stdout = <<WelcomeMsg, EnterGuessMsg>>
    /\ agg = NoAgg
    /\ display_words = <<>>
    /\ item_index = 0
    /\ pc = "prompt_for_guess"
    /\ guess_string = <<>>
    /\ letters = <<>>
    /\ input = None

\* lines 180-207 with get_guess (line 181) returning the guess g
GetGuess(g) ==
    /\ pc = "prompt_for_guess"
    /\ LoopBody(g)
    /\ UNCHANGED <<guess_string, letters, input>>

Next == \E g \in GuessInputs : GetGuess(g)

Spec == Init /\ [][Next]_vars

-----------------------------------------------------------------------------
(* The session at the level of the lines read from stdin *)

Whitespace == {" ", "\n"}

RECURSIVE trim_start(_)
trim_start(s) ==
    IF s # <<>> /\ Head(s) \in Whitespace THEN trim_start(Tail(s)) ELSE s

RECURSIVE trim_end(_)
trim_end(s) ==
    IF s # <<>> /\ s[Len(s)] \in Whitespace
    THEN trim_end(SubSeq(s, 1, Len(s) - 1)) ELSE s

\* line 225
trim(s) == trim_end(trim_start(s))

\* lines 279-284: the result prompt_for_color breaks with, None to loop again
color_of(letter) ==
    CASE letter = "g" -> CorrectSpot
      [] letter = "b" -> NotUsed
      [] letter = "y" -> WrongSpot
      [] OTHER -> None

GuessLines ==
    { cargo \o <<"\n">>, <<" ">> \o recur \o <<" ", "\n">>, <<"c","a","r","\n">> }

InputChars == {"g", "G", "y", "Y", "b", "B", "n"}

\* lines 216-233: one read of prompt_for_guess's loop
PromptForGuess(line) ==
    /\ pc = "prompt_for_guess"
    /\ Len(guesses) < MaxRounds
    /\ LET guess == trim(line)
       IN IF Len(guess) = WordLen
          THEN /\ guess_string' = guess
               /\ letters' = <<>>
               /\ stdout' = <<EnterResultMsg>>
               /\ pc' = "prompt_for_color"
          ELSE /\ stdout' = <<FiveLetterMsg>>
               /\ UNCHANGED <<guess_string, letters, pc>>
    /\ stderr' = <<>>
    /\ UNCHANGED <<guesses, guessed_word, agg, display_words, item_index, input>>

\* lines 272-287 called from lines 238-247: one read of prompt_for_color's loop
PromptForColor(c) ==
    /\ pc = "prompt_for_color"
    /\ input' = c
    /\ LET result == color_of(c)
           letter == guess_string[Len(letters) + 1]
       IN IF result # None
          THEN /\ letters' = Append(letters, GuessedLetter(letter, result))
               /\ IF Len(letters') < Len(guess_string)
                  THEN /\ stdout' = <<EnterResultMsg>>
                       /\ pc' = pc
                  ELSE /\ stdout' = <<ConfirmMsg>>
                       /\ pc' = "confirm"
          ELSE /\ stdout' = <<ReEnterColorMsg>>
               /\ UNCHANGED <<letters, pc>>
    /\ stderr' = <<>>
    /\ UNCHANGED <<guesses, guessed_word, agg, display_words, item_index, guess_string>>

\* lines 248-268: one read of the confirmation loop; 'y' returns the guess to
\* get_guess and the loop body of run_guess_loop runs on
Confirm(c) ==
    /\ pc = "confirm"
    /\ input' = c
    /\ IF c = "y"
       THEN /\ LoopBody(GuessedWord(letters))
            /\ UNCHANGED <<guess_string, letters>>
       ELSE /\ stdout' = <<OnlyYNMsg, ConfirmMsg>>
            /\ stderr' = <<>>
            /\ UNCHANGED <<guesses, guessed_word, agg, display_words, item_index,
                           pc, guess_string, letters>>

NextPrompt ==
    \/ \E line \in GuessLines : PromptForGuess(line)
    \/ \E c \in InputChars : PromptForColor(c)
    \/ \E c \in InputChars : Confirm(c)

SpecPrompt == Init /\ [][NextPrompt]_vars

-----------------------------------------------------------------------------
(* Properties *)

Result(i, p) == guesses[i].letters[p + 1].result
Letter(i, p) == guesses[i].letters[p + 1].letter
Required(p) == agg.aggregate_letter_results[p + 1].correct_spot
Aggregated == Len(agg.aggregate_letter_results) = WordLen

CorrectAt(p) == { i \in 1 .. Len(guesses) : Result(i, p) = CorrectSpot }

Least(S) == CHOOSE i \in S : \A j \in S : i <= j

\* where the run of CorrectSpot results at p that ends at the last guess starts
RunStart(p) ==
    Least({ k \in 1 .. Len(guesses) :
                \A j \in k .. Len(guesses) : Result(j, p) = CorrectSpot })

GuessWord(gw) == [ i \in 1 .. WordLen |-> gw.letters[i].letter ]

\* every guess of the history carries the game's feedback against target t
HonestFor(t) ==
    \A i \in 1 .. Len(guesses) : guesses[i] = WordleFeedback(GuessWord(guesses[i]), t)

\* the letters some guess of the history marks NotUsed
AbsentLetters ==
    { guesses[i].letters[p + 1].letter :
        <<i, p>> \in { x \in (1 .. Len(guesses)) \X Positions :
                          guesses[x[1]].letters[x[2] + 1].result = NotUsed } }

\* the three conditions of the matcher contract, stated on sets
NoAbsentLetter(a, w) == Chars(w) \cap a.not_used = {}
AllUsedLetters(a, w) == a.used_somewhere \subseteq Chars(w)
PositionsAgree(a, w) ==
    \A p \in Positions :
        LET r == a.aggregate_letter_results[p + 1]
        IN /\ (r.correct_spot # None => w[p + 1] = r.correct_spot)
           /\ w[p + 1] \notin r.wrong_spot

IndexIn(words, w) == Least({ i \in 1 .. Len(words) : words[i] = w })

\* kept is exactly the words of words that a matches, in the order of words
KeepsMatchesInOrder(words, a, kept) ==
    /\ Chars(kept) = { w \in Chars(words) : word_matches(a, w) }
    /\ \A i, j \in 1 .. Len(kept) :
          i < j => IndexIn(words, kept[i]) < IndexIn(words, kept[j])

cargo_guess == WordleFeedback(cargo, racer)

-----------------------------------------------------------------------------
\* C1: whenever some guess is CorrectSpot at position p, the required letter
\* of p is the letter of the first such guess, whatever later guesses have at
\* p; when no guess is CorrectSpot at p, no letter is required at p.
C1_FirstCorrectWins ==
    Aggregated =>
        \A p \in Positions :
            Required(p) = IF CorrectAt(p) = {} THEN None
                          ELSE Letter(Least(CorrectAt(p)), p)

\* C2: a step that appends a guess to the history never makes a candidate
\* match that did not match the constraints of the history before it.
C2_MonotonicNarrowing ==
    [][ guesses' = Append(guesses, guessed_word') =>
            \A w \in Candidates :
                word_matches(agg', w) => word_matches(from(guesses), w) ]_vars

\* C3 as stated: a target whose feedback every guess of the history carries
\* always matches the aggregated constraints.
C3_SelfConsistent ==
    Aggregated =>
        \A t \in Targets : HonestFor(t) => word_matches(agg, t)

\* C3 amended: a target whose feedback every guess of the history carries,
\* and none of whose letters is marked NotUsed by any guess of the history,
\* matches the aggregated constraints.
C3_SelfConsistentNoRepeat ==
    Aggregated =>
        \A t \in Targets :
            (HonestFor(t) /\ AbsentLetters \cap Chars(t) = {})
                => word_matches(agg, t)

C3_Witness ==
    /\ Aggregated
    /\ Len(guesses) >= 2
    /\ guesses[1] # guesses[2]
    /\ HonestFor(racer)
    /\ AbsentLetters # {}
    /\ AbsentLetters \cap Chars(racer) = {}
    /\ word_matches(agg, racer)

C5_MatcherContract ==
    Aggregated =>
        /\ \A w \in Candidates :
              word_matches(agg, w) <=>
                  (NoAbsentLetter(agg, w) /\ AllUsedLetters(agg, w)
                                          /\ PositionsAgree(agg, w))
        /\ \E kept \in {filter(word_list, agg)} :
              /\ KeepsMatchesInOrder(word_list, agg, kept)
              /\ display_words =
                    SubSeq(kept, 1, IF Len(kept) < DisplayCap
                                    THEN Len(kept) ELSE DisplayCap)
        /\ guesses = <<cargo_guess>> =>
              /\ racer \in Chars(display_words)
              /\ zebra \notin Chars(display_words)

C5_Witness ==
    /\ guesses = <<cargo_guess>>
    /\ [ i \in 1 .. WordLen |-> cargo_guess.letters[i].result ]
          = <<WrongSpot, CorrectSpot, WrongSpot, NotUsed, NotUsed>>
    /\ racer \in Chars(display_words)
    /\ zebra \notin Chars(display_words)
    /\ zebra \in Chars(word_list)

\* C6: a letter that any guess of the history marks NotUsed occurs in no
\* candidate that matches the aggregated constraints, also when the history
\* marks the same letter CorrectSpot or WrongSpot elsewhere.
C6_GlobalAbsence ==
    Aggregated =>
        \A c \in AbsentLetters :
            \A w \in Candidates : c \in Chars(w) => ~word_matches(agg, w)

C6_Witness ==
    /\ Aggregated
    /\ \E c \in AbsentLetters :
          /\ \E i \in 1 .. Len(guesses), p \in Positions :
                Letter(i, p) = c /\ Result(i, p) # NotUsed
          /\ \E w \in Chars(word_list) : c \in Chars(w)

\* C7: whenever the filter over the word list yields no word after a guess,
\* the session shows the no-words message and ends.
C7_EmptyResultSurfaced ==
    (Aggregated /\ filter(word_list, agg) = <<>>) =>
        (stdout = <<NoWordsMsg>> /\ pc = "done")

\* C8: a line read by prompt_for_color that starts with g or G gives
\* CorrectSpot, y or Y WrongSpot, b or B NotUsed, for the letter being asked
\* about; any other first char gives no result and the prompt is repeated.
C8_CaseInsensitiveTokens ==
    [][ pc = "prompt_for_color" =>
           LET expected == CASE input' \in {"g", "G"} -> CorrectSpot
                             [] input' \in {"y", "Y"} -> WrongSpot
                             [] input' \in {"b", "B"} -> NotUsed
                             [] OTHER -> None
           IN IF expected # None
              THEN letters' = Append(letters,
                      GuessedLetter(guess_string[Len(letters) + 1], expected))
              ELSE letters' = letters /\ stdout' = <<ReEnterColorMsg>> ]_vars

\* C9: the history starts empty; every step leaves the history as it was or
\* appends the guess of the call as its last element, so the history before a
\* step is a prefix of the history after it.
C9_AppendOnly ==
    /\ guesses = <<>>
    /\ [][ /\ Len(guesses) <= Len(guesses')
           /\ SubSeq(guesses', 1, Len(guesses)) = guesses
           /\ guesses' # guesses => guesses' = Append(guesses, guessed_word') ]_vars

C9_Witness ==
    /\ Len(guesses) >= 3
    /\ guesses[1] # guesses[2]
    /\ guesses[2] # guesses[3]
    /\ guessed_word = guesses[Len(guesses)]

\* C10: for a non-empty history, no letter is required at position p when the
\* last guess is not CorrectSpot at p; otherwise the required letter is the
\* letter of the earliest guess of the run of CorrectSpot results at p that
\* ends at the last guess.
C10_TrailingRun ==
    (Aggregated /\ guesses # <<>>) =>
        \A p \in Positions :
            Required(p) = IF Result(Len(guesses), p) # CorrectSpot THEN None
                          ELSE Letter(RunStart(p), p)

C10_Witness ==
    /\ Aggregated
    /\ Len(guesses) >= 4
    /\ \E p \in Positions :
          LET n == Len(guesses)
          IN /\ Result(n - 3, p) = CorrectSpot
             /\ Result(n - 2, p) # CorrectSpot
             /\ Result(n - 1, p) = CorrectSpot
             /\ Result(n, p) = CorrectSpot
             /\ Letter(n - 1, p) # Letter(n, p)
             /\ Letter(n - 3, p) # Letter(n - 1, p)
             /\ Required(p) = Letter(n - 1, p)

====
